---- MODULE Spec2Model ----
(***************************************************************************)
(* Model of api/index.js: the per-category lazy cache of template          *)
(* descriptors (templateFeatures, loadFeaturesFromCache), the descriptor   *)
(* codec (deserializeDescriptors), the matcher (matchEquipment) and the    *)
(* request handler (handleDetectRequest).                                  *)
(*                                                                         *)
(* Node.js runs each handler to completion between two awaits, so one      *)
(* action of the model is one run of JavaScript from a resumption to the   *)
(* next suspension (await fs.access, await fs.readFile, await              *)
(* loadFeaturesFromCache, await matchEquipment).                           *)
(***************************************************************************)
EXTENDS Integers, Sequences, FiniteSets, TLC

VARIABLES
  OPENCV_INITIALIZED, \* whether cv.onRuntimeInitialized has been called
  templateFeatures,  \* category -> entries in for..in order: <<[id, mat, by]>>
  artifact,          \* category -> the name of its cache file on disk (never written)
  req,               \* request -> the handler's locals and position
  accessCalls,       \* category -> number of fs.access calls issued
  readCalls,         \* category -> number of fs.readFile calls issued
  call,              \* SpecMatch, SpecDecode: the arguments of one call
  ret                \* SpecMatch, SpecDecode: what that call returned

vars == <<OPENCV_INITIALIZED, templateFeatures, artifact, req, accessCalls, readCalls, call,
          ret>>

(***************************************************************************)
(* Bounds of the model.                                                    *)
(***************************************************************************)
NumRequests == 2      \* requests handled in one behaviour
MaxContents == 2      \* blobs in one request body
MaxQueryRows == 2     \* descriptors of a query (SpecMatch)
MaxTemplates == 3     \* templates of a category (SpecMatch)
MaxDecoded == 2       \* whole descriptors in a blob (SpecDecode)

(***************************************************************************)
(* Program constants.                                                      *)
(***************************************************************************)
descriptorSize == 32
threshold == 10
top_n == 3
pollTimers == 10      \* the timers openCvLoaded sets, all of them for 1000 ms

(***************************************************************************)
(* Descriptors.  A descriptor is a row of descriptorSize bytes.  The rows  *)
(* the model draws from differ in their first byte only; distances are     *)
(* computed over all the columns.                                          *)
(***************************************************************************)
Row(b) == [i \in 1..descriptorSize |-> IF i = 1 THEN b ELSE 0]

RECURSIVE Concat(_)
Concat(rows) ==
  IF rows = <<>> THEN <<>> ELSE Head(rows) \o Concat(Tail(rows))

\* A blob of a request body or of a cache file.  A non-empty string is held
\* as the bytes Buffer.from(s, 'base64') yields for it (the call is total on
\* strings); "empty" is the string "", and null stands for null.
StringBlob(bytes) == [kind |-> "string", bytes |-> bytes]
EmptyString == [kind |-> "empty", bytes |-> <<>>]
NullBlob == [kind |-> "null", bytes |-> <<>>]
\* if (desStr): null and "" are falsy.
Truthy(blob) == blob.kind = "string"
BlobOfRows(rows) == StringBlob(Concat(rows))

\* cv.Mat: its rows and its element type.
Mat(rows) == [rows |-> rows, type |-> "CV_8U"]
MatEmpty(m) == Len(m.rows) = 0

\* cv.matFromArray(numDescriptors, descriptorSize, cv.CV_8U, data): row r
\* is bytes descriptorSize * (r - 1) + 1 .. descriptorSize * r of data.
RECURSIVE RowsOf(_, _)
RowsOf(data, n) ==
  IF n = 0 THEN <<>>
  ELSE Append(RowsOf(data, n - 1),
              SubSeq(data, descriptorSize * (n - 1) + 1, descriptorSize * n))

matFromArray(numDescriptors, data) == Mat(RowsOf(data, numDescriptors))

\* Mutant: the length is not checked.
LengthIsValid_Always(n) == TRUE

\* buffer.length % descriptorSize !== 0 throws (line 136)
LengthIsValid(n) == n % descriptorSize = 0

\* deserializeDescriptors(base64Content): [ok, mat] or [ok, error].
deserializeDescriptors(base64Content) ==
  IF base64Content.kind = "null"
    THEN [ok |-> FALSE, error |-> "Failed to deserialize base64 content: type"]
  ELSE IF ~LengthIsValid(Len(base64Content.bytes))
    THEN [ok |-> FALSE, error |-> "Failed to deserialize base64 content: length"]
  ELSE [ok |-> TRUE,
        mat |-> matFromArray(Len(base64Content.bytes) \div descriptorSize,
                             base64Content.bytes)]

(***************************************************************************)
(* cv.BFMatcher() and knnMatch.  The matcher is constructed without        *)
(* arguments, so its norm is the library's default, NORM_L2: the distance  *)
(* of two rows is the Euclidean distance of their bytes.  The model keeps  *)
(* the square of the distance, an integer.                                 *)
(***************************************************************************)
\* The sum of f over the indices in S.
RECURSIVE SumOver(_, _)
SumOver(f, S) ==
  IF S = {} THEN 0
  ELSE LET i == CHOOSE j \in S : TRUE IN f[i] + SumOver(f, S \ {i})

\* The columns in which two rows differ: the others add 0 to a distance.
Differing(a, b) == {i \in 1..Len(a) : a[i] # b[i]}

\* The squared Euclidean distance of two rows.
SqL2(a, b) ==
  SumOver([i \in 1..Len(a) |-> (a[i] - b[i]) * (a[i] - b[i])], Differing(a, b))

\* The norm of new cv.BFMatcher(): squared NORM_L2.
bfMatcherDistance(a, b) == SqL2(a, b)

\* The distances of q to the first n rows.
RECURSIVE DistancesTo(_, _, _)
DistancesTo(q, rows, n) ==
  IF n = 0 THEN <<>>
  ELSE Append(DistancesTo(q, rows, n - 1), bfMatcherDistance(q, rows[n]))

\* The index of the least distance among the indices in idx (the lowest
\* index among equals).
Nearest(dist, idx) ==
  CHOOSE j \in idx : \A k \in idx : dist[j] < dist[k] \/ (dist[j] = dist[k] /\ j <= k)

\* bfMatcher.knnMatch(query, train, knnMatches, 2): for each query row the
\* squared distances to its (at most) two nearest train rows, nearest first.
knnMatch(query, train) ==
  [i \in 1..Len(query.rows) |->
     LET dist == DistancesTo(query.rows[i], train.rows, Len(train.rows))
         all == 1..Len(train.rows)
     IN  IF all = {} THEN <<>>
         ELSE LET m == Nearest(dist, all)
              IN  IF all \ {m} = {} THEN <<dist[m]>>
                  ELSE <<dist[m], dist[Nearest(dist, all \ {m})]>>]

\* m.distance < ratioThresh * n.distance with ratioThresh = 0.75, on the
\* squared distances: d(m) < 3/4 d(n)  <=>  16 d(m)^2 < 9 d(n)^2.
RatioTest(m2, n2) == 16 * m2 < 9 * n2

\* goodMatchesCount of one template (lines 221-232).
goodMatchesCount(knnMatches) ==
  Cardinality({i \in 1..Len(knnMatches) :
                 Len(knnMatches[i]) >= 2 /\ RatioTest(knnMatches[i][1], knnMatches[i][2])})

\* goodMatchesCount of queryDescriptors against one template.
ConfidenceOf(queryDescriptors, templateDes) ==
  goodMatchesCount(knnMatch(queryDescriptors, templateDes))

\* Mutant: the threshold must be exceeded.
MeetsThreshold_Strict(count, thresholdArg) == count > thresholdArg

\* goodMatchesCount >= threshold (line 234)
MeetsThreshold(count, thresholdArg) == count >= thresholdArg

\* Mutant: the loop has no break.
StopsAfterPush_Never(earlyReturn) == FALSE

\* if (earlyReturn) break (lines 236-238)
StopsAfterPush(earlyReturn) == earlyReturn

(***************************************************************************)
(* matchEquipment from line 181 on: the part that runs once the category   *)
(* holds entries.  typeTemplates is the entries in for..in order.          *)
(* Returns the matches pushed and the templates knnMatch was run against.  *)
(***************************************************************************)
RECURSIVE TemplateLoop(_, _, _, _, _, _)
TemplateLoop(queryDescriptors, typeTemplates, thresholdArg, earlyReturn, matches, compared) ==
  IF typeTemplates = <<>> THEN [matches |-> matches, compared |-> compared]
  ELSE
    LET t == Head(typeTemplates)
        rest == Tail(typeTemplates)
    IN  IF MatEmpty(t.mat) \/ t.mat.type # "CV_8U"
          THEN TemplateLoop(queryDescriptors, rest, thresholdArg, earlyReturn, matches, compared)
        ELSE
          LET count == ConfidenceOf(queryDescriptors, t.mat)
              seen == Append(compared, [id |-> t.id, confidence |-> count])
          IN  IF MeetsThreshold(count, thresholdArg)
                THEN LET pushed == Append(matches, [id |-> t.id, confidence |-> count])
                     IN  IF StopsAfterPush(earlyReturn)
                           THEN [matches |-> pushed, compared |-> seen]
                         ELSE TemplateLoop(queryDescriptors, rest, thresholdArg,
                                           earlyReturn, pushed, seen)
              ELSE TemplateLoop(queryDescriptors, rest, thresholdArg, earlyReturn,
                                matches, seen)

\* Mutant: the comparator is a.confidence - b.confidence.
SortsBefore_Ascending(a, b) == a.confidence < b.confidence

\* The comparator of matches.sort: b.confidence - a.confidence < 0 puts a first.
SortsBefore(a, b) == a.confidence > b.confidence

\* Array.prototype.sort is stable: x goes after every element it does not
\* sort before.
RECURSIVE InsertSorted(_, _)
InsertSorted(x, sorted) ==
  IF sorted = <<>> THEN <<x>>
  ELSE IF SortsBefore(x, Head(sorted)) THEN <<x>> \o sorted
  ELSE <<Head(sorted)>> \o InsertSorted(x, Tail(sorted))

RECURSIVE SortMatches(_)
SortMatches(matches) ==
  IF matches = <<>> THEN <<>>
  ELSE InsertSorted(matches[Len(matches)], SortMatches(SubSeq(matches, 1, Len(matches) - 1)))

\* matches.slice(0, top_n)
Slice(s, n) == SubSeq(s, 1, IF n < Len(s) THEN n ELSE Len(s))

\* Mutant: an empty query is matched as any other.
SkipsMatching_Never(queryDescriptors) == FALSE

\* if (queryDescriptors.empty()) return [] (lines 181-184)
SkipsMatching(queryDescriptors) == MatEmpty(queryDescriptors)

\* How the try block of lines 217-239 was left for a compared template.
ExitOf(c, thresholdArg, earlyReturn) ==
  IF MeetsThreshold(c.confidence, thresholdArg) /\ StopsAfterPush(earlyReturn)
    THEN "break"
  ELSE "normal"

\* Mutant: the release comes after the try block, so a break skips it.
ReleasedOnExit_NotOnBreak(exit) == exit # "break"

\* The finally of lines 242-246 deletes knnMatches however the try block
\* was left.
ReleasedOnExit(exit) == TRUE

\* The DMatchVectorVectors created at line 218 and not deleted.
Unreleased(compared, thresholdArg, earlyReturn) ==
  Cardinality({k \in 1..Len(compared) :
                 ~ReleasedOnExit(ExitOf(compared[k], thresholdArg, earlyReturn))})

\* Lines 181-256.
MatchLoaded(queryDescriptors, typeTemplates, thresholdArg, topNArg, earlyReturn) ==
  IF SkipsMatching(queryDescriptors)
    THEN [matches |-> <<>>, compared |-> <<>>, unreleased |-> 0]
  ELSE
    LET out == TemplateLoop(queryDescriptors, typeTemplates, thresholdArg,
                            earlyReturn, <<>>, <<>>)
    IN  [matches |-> Slice(SortMatches(out.matches), topNArg), compared |-> out.compared,
         unreleased |-> Unreleased(out.compared, thresholdArg, earlyReturn)]

(***************************************************************************)
(* The cache files.  A file is missing (fs.access rejects with ENOENT),    *)
(* or unparsable (JSON.parse throws), or a document whose template_names   *)
(* and descriptors_list are present or not.                                *)
(***************************************************************************)
MissingFile ==
  [exists |-> FALSE, parses |-> FALSE, has_names |-> FALSE, has_list |-> FALSE,
   template_names |-> <<>>, descriptors_list |-> <<>>]
UnparsableFile ==
  [exists |-> TRUE, parses |-> FALSE, has_names |-> FALSE, has_list |-> FALSE,
   template_names |-> <<>>, descriptors_list |-> <<>>]
Document(names, list) ==
  [exists |-> TRUE, parses |-> TRUE, has_names |-> TRUE, has_list |-> TRUE,
   template_names |-> names, descriptors_list |-> list]
\* Documents in which cachedData.template_names, or
\* cachedData.descriptors_list, is undefined.
DocumentWithoutNames(list) ==
  [exists |-> TRUE, parses |-> TRUE, has_names |-> FALSE, has_list |-> TRUE,
   template_names |-> <<>>, descriptors_list |-> list]
DocumentWithoutList(names) ==
  [exists |-> TRUE, parses |-> TRUE, has_names |-> TRUE, has_list |-> FALSE,
   template_names |-> names, descriptors_list |-> <<>>]

\* Mutant: only template_names is looked at.
ValidFormat_NamesOnly(cachedData) == cachedData.has_names

\* Line 81: the document has both fields and they have the same length.
ValidFormat(cachedData) ==
  /\ cachedData.has_names
  /\ cachedData.has_list
  /\ Len(cachedData.template_names) = Len(cachedData.descriptors_list)

\* The array index a property name is: for..in enumerates those names
\* first, in ascending order, and the other names after them in the order
\* in which they were created.  -1: the name is no array index.
ArrayIndex(name) ==
  CASE name = "7" -> 7
    [] name = "12" -> 12
    [] OTHER -> -1

\* Whether key a is enumerated before a new key b.
EnumeratedBefore(a, b) ==
  IF ArrayIndex(b) < 0 THEN TRUE
  ELSE ArrayIndex(a) >= 0 /\ ArrayIndex(a) < ArrayIndex(b)

\* templateFeatures[equipmentType][name] = desMat (line 101): an existing
\* key keeps its place and gets the new Mat; a new key takes its place in
\* the enumeration order.
RECURSIVE Assign(_, _)
Assign(entries, e) ==
  IF entries = <<>> THEN <<e>>
  ELSE IF Head(entries).id = e.id THEN <<e>> \o Tail(entries)
  ELSE IF \A k \in 1..Len(entries) : entries[k].id # e.id /\ ~EnumeratedBefore(Head(entries).id, e.id)
    THEN <<e>> \o entries
  ELSE <<Head(entries)>> \o Assign(Tail(entries), e)

\* serializedDescriptors[i] (line 95): undefined past the end of the array,
\* and undefined is falsy as null is.
ItemAt(list, i) == IF i \in DOMAIN list THEN list[i] ELSE NullBlob

\* Mutant: an empty Mat is installed too.
Installs_EmptyToo(desStr) ==
  /\ Truthy(desStr)
  /\ deserializeDescriptors(desStr).ok

\* Lines 97-113 for one pair: whether desStr is installed.
Installs(desStr) ==
  /\ Truthy(desStr)
  /\ deserializeDescriptors(desStr).ok
  /\ ~MatEmpty(deserializeDescriptors(desStr).mat)

\* Mutant: a pair that is not installed ends the loop.
LoopContinues_StopOnSkip(desStr) == Installs(desStr)

\* What the loop does after pair i (lines 93-114): goes on to pair i + 1.
\* No pair ends the loop.
LoopContinues(desStr) == TRUE

\* The loop of lines 93-114 from pair i on; by is the load that creates
\* the Mats.
RECURSIVE PopulateFrom(_, _, _, _)
PopulateFrom(entries, cachedData, i, by) ==
  IF i > Len(cachedData.template_names) THEN entries
  ELSE
    LET desStr == ItemAt(cachedData.descriptors_list, i)
        next == IF Installs(desStr)
                  THEN Assign(entries, [id |-> cachedData.template_names[i],
                                        mat |-> deserializeDescriptors(desStr).mat,
                                        by |-> by])
                ELSE entries
    IN  IF LoopContinues(desStr) THEN PopulateFrom(next, cachedData, i + 1, by)
        ELSE next

\* Lines 79-115: what the entries of the category are once the file was read.
Populate(entries, cachedData, by) ==
  IF ~ValidFormat(cachedData) THEN entries
  ELSE PopulateFrom(entries, cachedData, 1, by)

\* Mutant: the entries are kept in one object that all the categories share.
Store_Shared(features, equipmentType, entries) == [c \in DOMAIN features |-> entries]

\* templateFeatures[equipmentType][name] = .. (line 101) writes the object
\* of equipmentType, which no other category shares (lines 47-53).
Store(features, equipmentType, entries) == [features EXCEPT ![equipmentType] = entries]

\* Mutant: a missing file is rethrown.
CatchRethrows_Enoent(code) == code = "ENOENT"

\* The catch of lines 117-127 logs and returns: it rethrows no error.
CatchRethrows(code) == FALSE

\* Lines 61 and 169: the category counts as not loaded when it has no entry.
NotLoaded(entries) == Len(entries) = 0

(***************************************************************************)
(* The requests.                                                           *)
(***************************************************************************)
Categories == {"weapon/main", "chara"}
Requests == 1..NumRequests

\* Descriptors and blobs of the requests and the cache files.
Query11 == BlobOfRows([i \in 1..11 |-> IF i = 11 THEN Row(100) ELSE Row(0)])
BadLength == StringBlob([i \in 1..(descriptorSize + 1) |-> 0])
NoBytes == StringBlob(<<>>)

TemplateA == BlobOfRows(<<Row(1), Row(200)>>)      \* 10 good matches for Query11
TemplateB == BlobOfRows(<<Row(2), Row(250)>>)      \* 11 good matches for Query11
TemplateC == BlobOfRows(<<Row(5)>>)                \* one row: no second neighbour

GoodFile ==
  Document(<<"b", "12", "x", "7", "y", "z", "w", "v">>,
           <<TemplateB, TemplateC, NullBlob, TemplateA, BadLength, NoBytes, EmptyString,
             TemplateC>>)
NoUsableFile == Document(<<"x", "y", "z", "w">>, <<NullBlob, BadLength, NoBytes, EmptyString>>)
UnequalFile == Document(<<"a", "b">>, <<TemplateA>>)
NoNamesFile == DocumentWithoutNames(<<TemplateA, TemplateB>>)
NoListFile == DocumentWithoutList(<<"a", "b">>)

\* The state holds the names of files and of request blobs; File and Blob
\* give what they stand for.
FileNames == {"missing", "unparsable", "good", "nousable", "unequal", "nonames", "nolist"}
File(name) ==
  CASE name = "missing" -> MissingFile
    [] name = "unparsable" -> UnparsableFile
    [] name = "good" -> GoodFile
    [] name = "nousable" -> NoUsableFile
    [] name = "unequal" -> UnequalFile
    [] name = "nonames" -> NoNamesFile
    [] name = "nolist" -> NoListFile

\* The blobs of the requests of SpecBatch, and of those of Spec.
RequestBlobs == {"query11", "empty", "badlength", "null"}
RaceBlobs == {"query11", "badlength"}
Blob(name) ==
  CASE name = "query11" -> Query11
    [] name = "empty" -> EmptyString
    [] name = "badlength" -> BadLength
    [] name = "null" -> NullBlob

RECURSIVE SeqsUpTo(_, _)
SeqsUpTo(S, n) ==
  IF n = 0 THEN {<<>>}
  ELSE LET shorter == SeqsUpTo(S, n - 1)
       IN  shorter \cup {Append(s, x) : s \in {t \in shorter : Len(t) = n - 1}, x \in S}

\* req.body with at most n blobs: valid is Array.isArray(reqBody.contents).
BodiesUpTo(n) ==
  {[valid |-> FALSE, contents |-> <<>>, earlyReturn |-> FALSE]}
  \cup [valid : {TRUE}, contents : SeqsUpTo(RequestBlobs, n), earlyReturn : BOOLEAN]

\* req.body with one blob and no earlyReturn.
BodiesOfOne ==
  [valid : {TRUE}, contents : {<<b>> : b \in RaceBlobs}, earlyReturn : {FALSE}]

ErrorObject(message) == <<[error |-> message]>>
IsErrorObject(x) == x # <<>> /\ "error" \in DOMAIN x[1]

\* The locals of a request: i is the place in contents of the blob the loop
\* is at, queryDes is the place of the blob whose Mat the variable queryDes
\* refers to (0: null).  For the blob at each place: mats is the state of
\* the Mat decoded from it ("none", "live", "deleted"), deletes is the
\* number of delete() calls made on that Mat, searches is the number of
\* knnMatch calls of its match.  knnLive is the number of
\* DMatchVectorVectors not deleted, loads is the number of calls of
\* loadFeaturesFromCache that have not returned, timers is the number of
\* timers of openCvLoaded that have not fired.
Idle ==
  [pc |-> "idle", type |-> "chara", valid |-> FALSE, contents |-> <<>>,
   earlyReturn |-> FALSE, i |-> 0, results |-> <<>>, status |-> 0,
   queryDes |-> 0, mats |-> <<>>, deletes |-> <<>>, searches |-> <<>>,
   knnLive |-> 0, loads |-> 0, timers |-> 0]

NoCall == [query |-> Mat(<<>>), templates |-> <<>>, threshold |-> 0, top_n |-> 0,
           earlyReturn |-> FALSE]
NoRet == [done |-> FALSE, matches |-> <<>>, compared |-> <<>>]

\* The requests of Spec and SpecBatch arrive when the OpenCV runtime is
\* initialized: openCvLoaded resolves at once (line 18).
Init ==
  /\ OPENCV_INITIALIZED = TRUE
  /\ templateFeatures = [c \in Categories |-> <<>>]
  /\ artifact \in [Categories -> FileNames]
  /\ req = [r \in Requests |-> Idle]
  /\ accessCalls = [c \in Categories |-> 0]
  /\ readCalls = [c \in Categories |-> 0]
  /\ call = NoCall
  /\ ret = NoRet

\* The finally of lines 290-294: delete() is called on the Mat queryDes
\* refers to, if it refers to one.  On a Mat that is deleted already the
\* call throws, and line 292 catches that.
Finally(q) ==
  IF q.queryDes = 0 THEN q
  ELSE [q EXCEPT !.deletes[q.queryDes] = @ + 1, !.mats[q.queryDes] = "deleted"]

\* results.push(x) and the end of the loop body (lines 286-296): the
\* finally, and then the next blob, or res.json(results) after the last one.
Pushed(q, x) ==
  LET f == Finally(q)
  IN  IF f.i = Len(f.contents)
        THEN [f EXCEPT !.results = Append(@, x), !.pc = "done", !.status = 200]
      ELSE [f EXCEPT !.results = Append(@, x), !.pc = "loop", !.i = @ + 1]

\* Mutant: an error of one blob ends the request with status 500.
OnBlobError_Abort(q, message) == [q EXCEPT !.pc = "done", !.status = 500]

\* The catch of lines 287-289: the error object takes the blob's place in
\* results and the loop goes on.
OnBlobError(q, message) == Pushed(q, ErrorObject(message))

\* queryDes = deserializeDescriptors(content) (line 283) when it returns.
Decoded(q) == [q EXCEPT !.queryDes = q.i, !.mats[q.i] = "live"]

\* The Mat queryDes refers to.
QueryDes(q) == deserializeDescriptors(Blob(q.contents[q.queryDes])).mat

\* Mutant: the match is not awaited; the loop goes on with its promise.
AwaitsLoad_Not(q) == Pushed([q EXCEPT !.loads = @ + 1], <<>>)

\* await matchEquipment (line 285) when the match awaits its load (line
\* 171): the handler is suspended until fs.access settles.
AwaitsLoad(q) == [q EXCEPT !.pc = "access", !.loads = @ + 1]

\* loadFeaturesFromCache returns (lines 84, 115, 127).
LoadReturned(q) == [q EXCEPT !.pc = "resume", !.loads = @ - 1]

\* matchEquipment from line 181 on, as handleDetectRequest calls it (line
\* 285), and the end of the loop body.
Matched(q, entries) ==
  LET out == MatchLoaded(QueryDes(q), entries, threshold, top_n, q.earlyReturn)
  IN  Pushed([q EXCEPT !.searches[q.i] = Len(out.compared),
                       !.knnLive = @ + out.unreleased],
             out.matches)

\* handleDetectRequest, lines 266-278: the request arrives and its body is
\* validated.  Requests take their numbers in the order they arrive.
Begin(r, bodies) ==
  /\ req[r].pc = "idle"
  /\ \A s \in Requests : s < r => req[s].pc # "idle"
  /\ \E type \in Categories, body \in bodies :
       req' = [req EXCEPT ![r] =
         IF ~body.valid
           THEN [Idle EXCEPT !.pc = "done", !.type = type, !.status = 400]
         ELSE IF Len(body.contents) = 0
           THEN [Idle EXCEPT !.pc = "done", !.type = type, !.valid = TRUE, !.status = 200]
         ELSE [Idle EXCEPT !.pc = "loop", !.type = type, !.valid = TRUE,
                           !.contents = body.contents,
                           !.earlyReturn = body.earlyReturn, !.i = 1,
                           !.mats = [i \in 1..Len(body.contents) |-> "none"],
                           !.deletes = [i \in 1..Len(body.contents) |-> 0],
                           !.searches = [i \in 1..Len(body.contents) |-> 0]]]
  /\ UNCHANGED <<OPENCV_INITIALIZED, templateFeatures, artifact, accessCalls, readCalls,
                 call, ret>>

\* One turn of the loop of lines 281-295 up to its first suspension:
\* deserializeDescriptors, then matchEquipment up to await fs.access (line
\* 77) when the category has no entry, and to its return otherwise.
Iterate(r) ==
  LET q == req[r]
      d == deserializeDescriptors(Blob(q.contents[q.i]))
  IN  /\ q.pc = "loop"
      /\ IF ~d.ok
           THEN /\ req' = [req EXCEPT ![r] = OnBlobError(q, d.error)]
                /\ UNCHANGED accessCalls
         ELSE IF NotLoaded(templateFeatures[q.type])
           THEN /\ req' = [req EXCEPT ![r] = AwaitsLoad(Decoded(q))]
                /\ accessCalls' = [accessCalls EXCEPT ![q.type] = @ + 1]
         ELSE /\ req' = [req EXCEPT ![r] = Matched(Decoded(q), templateFeatures[q.type])]
              /\ UNCHANGED accessCalls
      /\ UNCHANGED <<OPENCV_INITIALIZED, templateFeatures, artifact, readCalls, call, ret>>

\* fs.access settles (line 77): ENOENT goes to the catch, and otherwise
\* fs.readFile is called (line 78).
AccessDone(r) ==
  LET q == req[r]
  IN  /\ q.pc = "access"
      /\ IF File(artifact[q.type]).exists
           THEN /\ req' = [req EXCEPT ![r].pc = "read"]
                /\ readCalls' = [readCalls EXCEPT ![q.type] = @ + 1]
         ELSE /\ req' = [req EXCEPT ![r] =
                   IF CatchRethrows("ENOENT") THEN OnBlobError(q, "ENOENT")
                   ELSE LoadReturned(q)]
              /\ UNCHANGED readCalls
      /\ UNCHANGED <<OPENCV_INITIALIZED, templateFeatures, artifact, accessCalls, call, ret>>

\* fs.readFile settles (line 78) and the load runs to its end (lines
\* 79-128) without suspending.
ReadDone(r) ==
  LET q == req[r]
  IN  /\ q.pc = "read"
      /\ IF File(artifact[q.type]).parses
           THEN /\ templateFeatures' =
                     Store(templateFeatures, q.type,
                           Populate(templateFeatures[q.type], File(artifact[q.type]), r))
                /\ req' = [req EXCEPT ![r] = LoadReturned(q)]
         ELSE /\ req' = [req EXCEPT ![r] =
                   IF CatchRethrows("SyntaxError") THEN OnBlobError(q, "SyntaxError")
                   ELSE LoadReturned(q)]
              /\ UNCHANGED templateFeatures
      /\ UNCHANGED <<OPENCV_INITIALIZED, artifact, accessCalls, readCalls, call, ret>>

\* matchEquipment resumes after await loadFeaturesFromCache (lines 173-256)
\* and the loop body ends.
Resume(r) ==
  LET q == req[r]
  IN  /\ q.pc = "resume"
      /\ req' = [req EXCEPT ![r] =
           IF NotLoaded(templateFeatures[q.type]) THEN Pushed(q, <<>>)
           ELSE Matched(q, templateFeatures[q.type])]
      /\ UNCHANGED <<OPENCV_INITIALIZED, templateFeatures, artifact, accessCalls, readCalls,
                 call, ret>>

(***************************************************************************)
(* Spec: up to NumRequests requests of one blob each, in every             *)
(* interleaving of their suspensions.                                      *)
(***************************************************************************)
Next ==
  \E r \in Requests :
    \/ Begin(r, BodiesOfOne)
    \/ Iterate(r)
    \/ AccessDone(r)
    \/ ReadDone(r)
    \/ Resume(r)

Spec == Init /\ [][Next]_vars

(***************************************************************************)
(* SpecBatch: one request of up to MaxContents blobs.                      *)
(***************************************************************************)
NextBatch ==
  \/ Begin(1, BodiesUpTo(MaxContents))
  \/ Iterate(1)
  \/ AccessDone(1)
  \/ ReadDone(1)
  \/ Resume(1)

SpecBatch == Init /\ [][NextBatch]_vars

(***************************************************************************)
(* SpecReady: the requests from their arrival on, in a process whose       *)
(* OpenCV runtime is not initialized yet.  A request is "new" before it    *)
(* arrives, "wait" while openCvLoaded is pending, and "idle" once it has   *)
(* resolved; from there on the handler is that of Spec.  The artifacts are *)
(* missing or unparsable and the bodies are short.                         *)
(***************************************************************************)
ReadyFileNames == {"missing", "unparsable"}
BodiesReady ==
  {[valid |-> FALSE, contents |-> <<>>, earlyReturn |-> FALSE]}
  \cup [valid : {TRUE}, contents : SeqsUpTo({"empty", "badlength"}, 1), earlyReturn : {FALSE}]

InitReady ==
  /\ OPENCV_INITIALIZED = FALSE
  /\ templateFeatures = [c \in Categories |-> <<>>]
  /\ artifact \in [Categories -> ReadyFileNames]
  /\ req = [r \in Requests |-> [Idle EXCEPT !.pc = "new"]]
  /\ accessCalls = [c \in Categories |-> 0]
  /\ readCalls = [c \in Categories |-> 0]
  /\ call = NoCall
  /\ ret = NoRet

\* cv.onRuntimeInitialized is called (lines 10-13).
RuntimeInitialized ==
  /\ ~OPENCV_INITIALIZED
  /\ OPENCV_INITIALIZED' = TRUE
  /\ UNCHANGED <<templateFeatures, artifact, req, accessCalls, readCalls, call, ret>>

\* handleDetectRequest is called and calls openCvLoaded (lines 260-262 and
\* 15-28): the promise is resolved at once when the flag is set, and
\* otherwise pollTimers timers are set and the handler waits.
Arrive(r) ==
  /\ req[r].pc = "new"
  /\ \A s \in Requests : s < r => req[s].pc # "new"
  /\ req' = [req EXCEPT ![r] =
       IF OPENCV_INITIALIZED THEN [@ EXCEPT !.pc = "idle"]
       ELSE [@ EXCEPT !.pc = "wait", !.timers = pollTimers]]
  /\ UNCHANGED <<OPENCV_INITIALIZED, templateFeatures, artifact, accessCalls, readCalls,
                 call, ret>>

\* One of the timers of request r fires (lines 21-25): it resolves the
\* promise when the flag is set, and does nothing otherwise.  Resolving a
\* promise that is resolved has no effect.
TimerFires(r) ==
  /\ req[r].timers > 0
  /\ req' = [req EXCEPT ![r] =
       IF OPENCV_INITIALIZED /\ @.pc = "wait"
         THEN [@ EXCEPT !.pc = "idle", !.timers = @ - 1]
       ELSE [@ EXCEPT !.timers = @ - 1]]
  /\ UNCHANGED <<OPENCV_INITIALIZED, templateFeatures, artifact, accessCalls, readCalls,
                 call, ret>>

\* The rest of the handler of request r.
Handles(r) ==
  \/ Begin(r, BodiesReady)
  \/ Iterate(r)
  \/ AccessDone(r)
  \/ ReadDone(r)
  \/ Resume(r)

NextReady ==
  \/ RuntimeInitialized
  \/ \E r \in Requests :
       \/ Arrive(r)
       \/ TimerFires(r)
       \/ Begin(r, BodiesReady)
       \/ Iterate(r)
       \/ AccessDone(r)
       \/ ReadDone(r)
       \/ Resume(r)

\* The runtime's callback is called at some time, every timer fires, and
\* the event loop runs every continuation that is ready.  Nothing makes a
\* request arrive.
SpecReady ==
  /\ InitReady /\ [][NextReady]_vars
  /\ WF_vars(RuntimeInitialized)
  /\ \A r \in Requests : WF_vars(TimerFires(r)) /\ WF_vars(Handles(r))

(***************************************************************************)
(* SpecMatch: one call of matchEquipment on a category that holds          *)
(* typeTemplates, with arguments drawn from bounded sets.                  *)
(***************************************************************************)
QueryRows == {Row(0), Row(100)}

\* Against Row(0) and Row(100): Mat1 has a good match for Row(0) only (its
\* rows are equally far from Row(100), which differs from them in 1 and 2
\* bits), Mat2 has one for both, and Mat3 has one row.
Mat1 == Mat(<<Row(36), Row(164)>>)
Mat2 == Mat(<<Row(2), Row(250)>>)
Mat3 == Mat(<<Row(5)>>)
TemplateMats == {Mat1, Mat2, Mat3}

\* The entries of a category: the k-th enumerated template has id k.
TypeTemplates ==
  {[k \in 1..Len(ms) |-> [id |-> k, mat |-> ms[k], by |-> 0]] :
     ms \in SeqsUpTo(TemplateMats, MaxTemplates)}

MatchCalls ==
  [query : {Mat(rows) : rows \in SeqsUpTo(QueryRows, MaxQueryRows)},
   templates : TypeTemplates,
   threshold : 1..(MaxQueryRows + 1),
   top_n : 0..MaxTemplates,
   earlyReturn : BOOLEAN]

InitMatch ==
  /\ OPENCV_INITIALIZED = TRUE
  /\ templateFeatures = [c \in Categories |-> <<>>]
  /\ artifact = [c \in Categories |-> "missing"]
  /\ req = [r \in Requests |-> Idle]
  /\ accessCalls = [c \in Categories |-> 0]
  /\ readCalls = [c \in Categories |-> 0]
  /\ call \in MatchCalls
  /\ ret = NoRet

\* matchEquipment(call.query, ..) returns.
MatchReturns ==
  /\ ~ret.done
  /\ ret' = LET out == MatchLoaded(call.query, call.templates, call.threshold,
                                   call.top_n, call.earlyReturn)
            IN  [done |-> TRUE, matches |-> out.matches, compared |-> out.compared]
  /\ UNCHANGED <<OPENCV_INITIALIZED, templateFeatures, artifact, req, accessCalls,
                 readCalls, call>>

NextMatch == MatchReturns

SpecMatch == InitMatch /\ [][NextMatch]_vars

(***************************************************************************)
(* SpecDecode: one call of deserializeDescriptors on a string that decodes *)
(* to 0 .. descriptorSize * (MaxDecoded + 1) - 1 bytes.                    *)
(***************************************************************************)
\* The bytes start, start + 7, start + 14, .. (mod 256).
BytesFrom(start, n) == [i \in 1..n |-> (start + 7 * (i - 1)) % 256]

DecodeCalls ==
  {[blob |-> EmptyString]}
  \cup {[blob |-> StringBlob(BytesFrom(start, n))] :
          start \in {0, 255}, n \in 0..(descriptorSize * (MaxDecoded + 1) - 1)}

InitDecode ==
  /\ OPENCV_INITIALIZED = TRUE
  /\ templateFeatures = [c \in Categories |-> <<>>]
  /\ artifact = [c \in Categories |-> "missing"]
  /\ req = [r \in Requests |-> Idle]
  /\ accessCalls = [c \in Categories |-> 0]
  /\ readCalls = [c \in Categories |-> 0]
  /\ call \in DecodeCalls
  /\ ret = [done |-> FALSE]

\* deserializeDescriptors(call.blob) returns or throws.
DecodeReturns ==
  /\ ~ret.done
  /\ ret' = [done |-> TRUE, out |-> deserializeDescriptors(call.blob)]
  /\ UNCHANGED <<OPENCV_INITIALIZED, templateFeatures, artifact, req, accessCalls,
                 readCalls, call>>

NextDecode == DecodeReturns

SpecDecode == InitDecode /\ [][NextDecode]_vars

(***************************************************************************)
(* Properties of the matcher (SpecMatch).                                  *)
(***************************************************************************)
\* The ids of the Match List.
MatchIds == {ret.matches[m].id : m \in 1..Len(ret.matches)}

\* C5: with earlyExit false and topN at least the number of templates, for
\* a non-empty query a non-empty template is in the result exactly when its
\* confidence is at least the threshold.
C5_ThresholdInclusion ==
  (ret.done /\ ~call.earlyReturn /\ call.top_n >= Len(call.templates)
     /\ ~MatEmpty(call.query))
  => \A k \in 1..Len(call.templates) :
       ~MatEmpty(call.templates[k].mat)
       => ((call.templates[k].id \in MatchIds)
            <=> (ConfidenceOf(call.query, call.templates[k].mat) >= call.threshold))

\* A call where one template has exactly the threshold and is returned, and
\* another has one less and is not.
C5_Witness ==
  /\ ret.done /\ ~call.earlyReturn /\ call.top_n >= Len(call.templates)
  /\ ~MatEmpty(call.query)
  /\ \E k, l \in 1..Len(call.templates) :
       /\ ConfidenceOf(call.query, call.templates[k].mat) = call.threshold
       /\ call.templates[k].id \in MatchIds
       /\ ConfidenceOf(call.query, call.templates[l].mat) = call.threshold - 1
       /\ call.templates[l].id \notin MatchIds

\* The templates pushed: those compared whose confidence met the threshold.
Included ==
  {ret.compared[k] : k \in {j \in 1..Len(ret.compared) :
                              ret.compared[j].confidence >= call.threshold}}

\* a ranks before b: higher confidence, or equal confidence and enumerated
\* earlier (the id of a template of a call is its place in the enumeration).
RanksBefore(a, b) ==
  \/ a.confidence > b.confidence
  \/ a.confidence = b.confidence /\ a.id < b.id

\* C6: the Match List is the included templates by confidence descending,
\* equal confidences in enumeration order, cut to the first topN.
C6_Ranking ==
  ret.done =>
    /\ Len(ret.matches) = IF Cardinality(Included) < call.top_n
                            THEN Cardinality(Included) ELSE call.top_n
    /\ \A m \in 1..Len(ret.matches) : ret.matches[m] \in Included
    /\ \A m, n \in 1..Len(ret.matches) :
         m < n => RanksBefore(ret.matches[m], ret.matches[n])
    /\ \A x \in Included :
         (\A m \in 1..Len(ret.matches) : ret.matches[m] # x)
         => \A m \in 1..Len(ret.matches) : RanksBefore(ret.matches[m], x)

\* A call whose Match List puts a later template first and leaves out an
\* included template whose confidence equals that of the last one returned.
C6_Witness ==
  /\ ret.done
  /\ Cardinality(Included) > call.top_n
  /\ \E m, n \in 1..Len(ret.matches) :
       m < n /\ ret.matches[m].id > ret.matches[n].id
  /\ \E x \in Included :
       /\ \A m \in 1..Len(ret.matches) : ret.matches[m] # x
       /\ x.confidence = ret.matches[Len(ret.matches)].confidence

\* The templates of the call that knnMatch can be run against and whose
\* confidence meets the threshold, by their place in the enumeration.
Passing ==
  {k \in 1..Len(call.templates) :
     /\ ~MatEmpty(call.templates[k].mat)
     /\ ConfidenceOf(call.query, call.templates[k].mat) >= call.threshold}

FirstPassing == CHOOSE k \in Passing : \A l \in Passing : k <= l

ComparedIds == {ret.compared[k].id : k \in 1..Len(ret.compared)}

\* C7: with earlyExit set, the enumeration stops at the first template
\* whose confidence meets the threshold: the result is empty or that one
\* template (it is that template when topN >= 1), and no template after it
\* is compared.
C7_EarlyExit ==
  (ret.done /\ call.earlyReturn /\ ~MatEmpty(call.query)) =>
    IF Passing = {}
      THEN /\ ret.matches = <<>>
           /\ ComparedIds = {k \in 1..Len(call.templates) : ~MatEmpty(call.templates[k].mat)}
    ELSE /\ ComparedIds = {k \in 1..FirstPassing : ~MatEmpty(call.templates[k].mat)}
         /\ ret.matches =
              IF call.top_n >= 1
                THEN <<[id |-> FirstPassing,
                        confidence |-> ConfidenceOf(call.query,
                                                    call.templates[FirstPassing].mat)]>>
              ELSE <<>>

\* An early exit that leaves a template of higher confidence uncompared.
C7_Witness ==
  /\ ret.done /\ call.earlyReturn /\ Len(ret.matches) = 1
  /\ \E k \in 1..Len(call.templates) :
       /\ k \notin ComparedIds
       /\ ConfidenceOf(call.query, call.templates[k].mat) > ret.matches[1].confidence

\* The Hamming distance of two rows: the number of bits that differ.
BitAt(x, k) == (x \div (2 ^ k)) % 2
ByteHamming(x, y) == Cardinality({k \in 0..7 : BitAt(x, k) # BitAt(y, k)})
Hamming(a, b) ==
  SumOver([i \in 1..Len(a) |-> ByteHamming(a[i], b[i])], Differing(a, b))

\* The ratio test on Hamming distances: nearest < 0.75 * second nearest.
HammingConfidence(queryDescriptors, templateDes) ==
  Cardinality(
    {i \in 1..Len(queryDescriptors.rows) :
       \E j \in 1..Len(templateDes.rows) :
         \E k \in (1..Len(templateDes.rows)) \ {j} :
           LET h(x) == Hamming(queryDescriptors.rows[i], templateDes.rows[x])
           IN  /\ \A l \in 1..Len(templateDes.rows) : h(j) <= h(l)
               /\ \A l \in (1..Len(templateDes.rows)) \ {j} : h(k) <= h(l)
               /\ 4 * h(j) < 3 * h(k)})

\* C8: the confidence of every compared template is the number of query
\* descriptors whose two nearest neighbours by Hamming distance pass the
\* strict 0.75 ratio test (0 for a descriptor with fewer than two
\* neighbours).
C8_HammingRatioConfidence ==
  ret.done =>
    \A k \in 1..Len(ret.compared) :
      ret.compared[k].confidence =
        HammingConfidence(call.query, call.templates[ret.compared[k].id].mat)

(***************************************************************************)
(* Properties of the cache and of the handler (Spec, SpecBatch).           *)
(***************************************************************************)
\* The (name, Mat) pairs a complete load of a file installs: the pairs of
\* a valid document whose blob is a non-empty string that decodes to a
\* non-empty Mat.
UsablePairs(cachedData) ==
  IF ~(cachedData.exists /\ cachedData.parses /\ ValidFormat(cachedData)) THEN {}
  ELSE {[id |-> cachedData.template_names[i],
         mat |-> deserializeDescriptors(cachedData.descriptors_list[i]).mat] :
          i \in {j \in 1..Len(cachedData.template_names) :
                   Installs(cachedData.descriptors_list[j])}}

\* The (name, Mat) pairs a category holds.
HeldPairs(c) ==
  {[id |-> templateFeatures[c][k].id, mat |-> templateFeatures[c][k].mat] :
     k \in 1..Len(templateFeatures[c])}

\* C1: the overlapping first-use match calls of a category make one
\* artifact read in total.  Stated for the categories whose file has usable
\* entries, where calls that do not overlap read once.
C1_OneReadWhenConcurrent ==
  \A c \in Categories :
    UsablePairs(File(artifact[c])) # {} => accessCalls[c] <= 1 /\ readCalls[c] <= 1

\* The match calls request 1 has made: one for each blob that decoded.
MatchCallsMade(q) ==
  Cardinality({i \in 1..Len(q.results) : deserializeDescriptors(Blob(q.contents[i])).ok})

\* C2: whatever the artifact holds, N >= 1 match calls that do not overlap
\* make exactly one artifact read.
C2_IdempotentLoad ==
  (req[1].pc = "done" /\ MatchCallsMade(req[1]) >= 1)
  => accessCalls[req[1].type] = 1 /\ readCalls[req[1].type] <= 1

\* C3: once a category holds entries, no step adds, removes or replaces a
\* binding of it.
C3_WriteOnce ==
  [][\A c \in Categories :
       templateFeatures[c] # <<>> => templateFeatures'[c] = templateFeatures[c]]_vars

\* C4: a category's entries are empty or every usable entry of one complete
\* load of its artifact, in every state a request can read them in.
C4_NoPartialExposure ==
  \A c \in Categories :
    templateFeatures[c] = <<>> \/ HeldPairs(c) = UsablePairs(File(artifact[c]))

\* A request is suspended at its artifact read while another reads the
\* entries a load has installed, from a file some of whose pairs are skipped.
C4_Witness ==
  \E r, s \in Requests :
    /\ r # s /\ req[r].type = req[s].type
    /\ req[r].pc = "read" /\ req[s].pc = "resume"
    /\ Len(templateFeatures[req[r].type]) >= 2
    /\ Len(templateFeatures[req[r].type])
         < Len(File(artifact[req[r].type]).template_names)

\* C9: the response to a body of k blobs has k elements; element i is an
\* error object when blob i does not decode and the Match List of blob i
\* otherwise, whatever happened to the blobs before it.
C9_BatchShape ==
  \A r \in Requests :
    LET q == req[r]
    IN  q.valid =>
          /\ q.pc = "done" => q.status = 200 /\ Len(q.results) = Len(q.contents)
          /\ \A i \in 1..Len(q.results) :
               LET d == deserializeDescriptors(Blob(q.contents[i]))
               IN  IF d.ok THEN ~IsErrorObject(q.results[i])
                   ELSE q.results[i] = ErrorObject(d.error)
          /\ (q.pc = "done" /\ r = 1) =>
               \A i \in 1..Len(q.results) :
                 LET d == deserializeDescriptors(Blob(q.contents[i]))
                 IN  d.ok => q.results[i] =
                               MatchLoaded(d.mat, templateFeatures[q.type], threshold,
                                           top_n, q.earlyReturn).matches

\* A response whose first element is an error object and whose second is a
\* Match List with matches.
C9_Witness ==
  /\ req[1].pc = "done" /\ Len(req[1].results) = 2
  /\ IsErrorObject(req[1].results[1])
  /\ ~IsErrorObject(req[1].results[2]) /\ Len(req[1].results[2]) >= 1

\* C10: for a category whose artifact is missing, every match returns the
\* empty Match List and does not throw, and the entries stay empty.
C10_MissingArtifact ==
  \A c \in Categories :
    artifact[c] = "missing" =>
      /\ templateFeatures[c] = <<>>
      /\ \A r \in Requests :
           req[r].type = c =>
             \A i \in 1..Len(req[r].results) :
               deserializeDescriptors(Blob(req[r].contents[i])).ok
               => req[r].results[i] = <<>>

\* Two matches, of a non-empty and of an empty query, returned the empty
\* Match List for a category whose artifact is missing.
C10_Witness ==
  /\ req[1].pc = "done" /\ artifact[req[1].type] = "missing"
  /\ req[1].contents = <<"query11", "empty">>
  /\ req[1].results = << <<>>, <<>> >>
  /\ accessCalls[req[1].type] = 2

\* A malformed artifact: template_names or descriptors_list is absent, or
\* their lengths differ.
Malformed(cachedData) ==
  /\ cachedData.exists /\ cachedData.parses
  /\ \/ ~cachedData.has_names
     \/ ~cachedData.has_list
     \/ Len(cachedData.template_names) # Len(cachedData.descriptors_list)

\* C11: for a category whose artifact is malformed, no load installs an
\* entry or throws: the entries stay empty and every match of a blob that
\* decodes returns the empty Match List (never an error object).
C11_MalformedArtifact ==
  \A c \in Categories :
    Malformed(File(artifact[c])) =>
      /\ templateFeatures[c] = <<>>
      /\ \A r \in Requests :
           req[r].type = c =>
             /\ req[r].status # 500
             /\ \A i \in 1..Len(req[r].results) :
                  deserializeDescriptors(Blob(req[r].contents[i])).ok
                  => req[r].results[i] = <<>>

\* Two matches of a non-empty query have read an artifact whose sequences
\* have different lengths, and both returned the empty Match List.
C11_Witness ==
  /\ req[1].pc = "done" /\ artifact[req[1].type] = "unequal"
  /\ req[1].contents = <<"query11", "query11">>
  /\ req[1].results = << <<>>, <<>> >>
  /\ readCalls[req[1].type] = 2

\* A load of category c has run to its end, and none is at its read.
LoadCompleted(c) ==
  /\ readCalls[c] >= 1
  /\ \A r \in Requests : ~(req[r].type = c /\ req[r].pc = "read")

\* A blob that is present (a non-empty string) and whose bytes are n >= 1
\* whole descriptors.
UsableBlob(blob) ==
  /\ blob.kind = "string"
  /\ Len(blob.bytes) % 32 = 0
  /\ Len(blob.bytes) >= 32

\* C12: once a load of a well-formed artifact has completed, the category
\* holds an entry for template_names[i] exactly when descriptors_list[i] is
\* present, decodes and is not empty, whatever the pairs before it are; the
\* entry holds the bytes of the blob, and the category holds nothing else.
C12_PerEntrySkip ==
  \A c \in Categories :
    LET cachedData == File(artifact[c])
        pairs == 1..Len(cachedData.template_names)
    IN  (LoadCompleted(c) /\ cachedData.parses /\ ~Malformed(cachedData)) =>
          /\ \A i \in pairs :
               UsableBlob(cachedData.descriptors_list[i])
               <=> \E k \in 1..Len(templateFeatures[c]) :
                     /\ templateFeatures[c][k].id = cachedData.template_names[i]
                     /\ Concat(templateFeatures[c][k].mat.rows)
                          = cachedData.descriptors_list[i].bytes
          /\ \A k \in 1..Len(templateFeatures[c]) :
               \E i \in pairs : templateFeatures[c][k].id = cachedData.template_names[i]

\* A completed load has installed the last pair of a file in which a null
\* blob, a blob of a bad length, a blob of no bytes and an empty string
\* come before it.
C12_Witness ==
  \E c \in Categories :
    /\ LoadCompleted(c) /\ artifact[c] = "good"
    /\ Len(templateFeatures[c]) = 4
    /\ \E k \in 1..4 : templateFeatures[c][k].id = "v"
    /\ {NullBlob, BadLength, NoBytes, EmptyString}
         \subseteq {GoodFile.descriptors_list[i] : i \in 1..7}

\* Blob i of request q decodes to the empty Descriptor Collection.
EmptyQuery(q, i) ==
  LET d == deserializeDescriptors(Blob(q.contents[i]))
  IN  d.ok /\ Len(d.mat.rows) = 0

\* C14: the match of an empty query returns the empty Match List and runs
\* no nearest-neighbour search, whether the category holds entries, holds
\* none, or is loaded by this very match.
C14_EmptyQueryNoComparison ==
  \A r \in Requests :
    \A i \in 1..Len(req[r].contents) :
      EmptyQuery(req[r], i) =>
        /\ req[r].searches[i] = 0
        /\ i <= Len(req[r].results) => req[r].results[i] = <<>>

\* After a match that searched the templates of a category and found some,
\* the match of an empty query against that category has returned.
C14_Witness ==
  /\ req[1].pc = "done" /\ Len(req[1].contents) = 2
  /\ req[1].searches[1] >= 1 /\ Len(req[1].results[1]) >= 1
  /\ EmptyQuery(req[1], 2)
  /\ templateFeatures[req[1].type] # <<>>
  /\ req[1].results[2] = <<>>

C19_NoDoubleRelease ==
  \A r \in Requests :
    \A i \in 1..Len(req[r].deletes) :
      /\ req[r].deletes[i] <= 1
      /\ req[r].pc = "done" =>
           req[r].deletes[i] = IF req[r].mats[i] = "none" THEN 0 ELSE 1

\* C16: a step of a request for category A (of its load or of its match)
\* leaves the entries of every other category as they are.
C16_CrossCategoryIndependence ==
  [][\A r \in Requests :
       req'[r] # req[r] =>
         \A c \in Categories \ {req'[r].type} :
           templateFeatures'[c] = templateFeatures[c]]_vars

\* A match for B has run to completion while the load of A is suspended:
\* request 1 is still at the artifact read of its category, which holds no
\* entry yet, and request 2, which arrived after it, has loaded another
\* category and got matches from it.
C16_Witness ==
  /\ req[1].pc = "read" /\ req[2].pc = "done"
  /\ req[1].type # req[2].type
  /\ templateFeatures[req[1].type] = <<>>
  /\ templateFeatures[req[2].type] # <<>>
  /\ Len(req[2].results) = 1 /\ Len(req[2].results[1]) >= 1

\* C17: a request has at most one load in flight; when it turns to the blob
\* at place i, the i - 1 blobs before it have their results and no load is
\* in flight; and while the match of blob i is suspended no later blob has
\* a result.
C17_SequentialBatch ==
  \A r \in Requests :
    LET q == req[r]
    IN  /\ q.loads <= 1
        /\ q.pc = "loop" => q.loads = 0
        /\ q.pc \in {"loop", "access", "read", "resume"} => Len(q.results) = q.i - 1

\* The match of the second blob is suspended in a load, the second load of
\* the request: the first one had returned before the second blob began.
C17_Witness ==
  /\ req[1].pc = "read" /\ req[1].i = 2
  /\ req[1].loads = 1 /\ Len(req[1].results) = 1
  /\ readCalls[req[1].type] = 2

(***************************************************************************)
(* Properties of the codec (SpecDecode).                                   *)
(***************************************************************************)
\* C13: decode throws exactly when the number of decoded bytes is not a
\* multiple of 32; for 32 * n bytes, n >= 0, it returns n descriptors of 32
\* bytes each, which are the bytes in their order (none for n = 0).
C13_DecodeLengthCheck ==
  ret.done =>
    LET bytes == call.blob.bytes
    IN  /\ ~ret.out.ok <=> Len(bytes) % 32 # 0
        /\ Len(bytes) % 32 = 0 =>
             /\ Len(ret.out.mat.rows) * 32 = Len(bytes)
             /\ \A r \in 1..Len(ret.out.mat.rows) :
                  /\ Len(ret.out.mat.rows[r]) = 32
                  /\ \A i \in 1..32 : ret.out.mat.rows[r][i] = bytes[32 * (r - 1) + i]

\* A blob of 64 bytes has decoded to two descriptors that differ.
C13_Witness ==
  /\ ret.done /\ Len(call.blob.bytes) = 64
  /\ ret.out.ok /\ Len(ret.out.mat.rows) = 2
  /\ ret.out.mat.rows[1] # ret.out.mat.rows[2]

(***************************************************************************)
(* Properties of the readiness wait (SpecReady).                           *)
(***************************************************************************)
\* C18: as the runtime's callback is called at some time, however late,
\* every openCvLoaded that is pending resolves, and every request that has
\* arrived gets its response.
C18_ReadinessWaitLiveness ==
  \A r \in Requests :
    /\ (req[r].pc = "wait") ~> (req[r].pc # "wait")
    /\ (req[r].pc # "new") ~> (req[r].pc = "done")

====
